---------------------------- MODULE Spec2Model ----------------------------
(***************************************************************************)
(* Model of bioimageio_chatbot/chatbot_extensions/docs_extension.py: the   *)
(* knowledge-base search extension.  get_extensions builds the registry of *)
(* per-collection stores, get_schema advertises the request shape, and     *)
(* run_extension fans a query out to every store, joins the calls with     *)
(* asyncio.gather, merges, sorts and truncates the results.  Also of      *)
(* user_APIs/cellpose/image_processing.py: cellpose_get_response and the   *)
(* gates it puts before the remote segmentation call.                      *)
(*                                                                         *)
(* Strings that are formatted by the code are sequences of tokens; scores  *)
(* are integers standing for tenths (9 is 0.9).                            *)
(***************************************************************************)
EXTENDS Integers, Sequences, FiniteSets

VARIABLES
    manifest,         \* what get_manifest() returns (static for the process)
    pc,               \* "startup" | "config_error" | "idle" | "awaiting" | "done"
    registry,         \* docs_store_dict: its keys, in iteration order
    stores,           \* docs_store_dict: channel id -> what the store holds
    req,              \* the DocumentRetrievalInput object handed to run_extension
    requested,        \* req.top_k as it was when the current call was entered
    base_url,         \* run_extension's local base_url, as the loop left it
    channel_results,  \* run_extension's local channel_results (the search calls)
    gather_exc,       \* the exception asyncio.gather's future holds, if any
    docs_with_score,  \* run_extension's local docs_with_score (line 70)
    outcome,          \* how the current call of run_extension ended
    prev,             \* how the previous call with the same request ended
    class_doc,        \* DocumentRetrievalInput.__doc__
    schema,           \* what the latest get_schema call returned
    schema_args,      \* the channel lists get_schema was called with, in order
    cp_pc,            \* cellpose_get_response: "idle" | "help" | "guessing" | "segmenting" | "done"
    cp_input,         \* its arguments: question_with_history.image_data, req.task
    cp_local,         \* its locals: decoded size, image_ext, axes, the help situation
    cp_steps,         \* what it has done so far, in order
    cp_result         \* how it ended

vars == <<manifest, pc, registry, stores, req, requested, base_url,
          channel_results, gather_exc, docs_with_score, outcome, prev,
          class_doc, schema, schema_args,
          cp_pc, cp_input, cp_local, cp_steps, cp_result>>

cellposeVars == <<cp_pc, cp_input, cp_local, cp_steps, cp_result>>

searchVars == <<manifest, pc, registry, stores, req, requested, base_url,
                channel_results, gather_exc, docs_with_score, outcome, prev>>

schemaVars == <<class_doc, schema, schema_args>>

---------------------------------------------------------------------------
(* Bounds of the model and constants of the program.                       *)

\* At most this many documents are held by one store.
MaxDocs == 2

\* At most this many get_schema calls are followed.
MaxSchemaCalls == 2

\* run_extension, line 48: top_k is limited from 1 ...
MinTopK == 1

\* ... to 15.
MaxTopK == 15

\* DocumentRetrievalInput.top_k, line 28: the default.
DefaultTopK == 3

\* docs_with_score[0..2] are printed, line 74.
PrintedDocs == 3

\* The relevance scores the stores give, in tenths.
Scores == {5, 8, 9}

\* The top_k values a caller supplies: negative, zero, in range, above 15.
TopKs == {-3, 0, 2, 3, 16, 100}

Queries == {"how to segment cells", "what is a model zoo"}

\* A key that a mapping does not hold.
Missing == "<missing>"

\* Python's None.
None == "<None>"

NoExc == "<no exception>"

Min(a, b) == IF a <= b THEN a ELSE b

Max(a, b) == IF a >= b THEN a ELSE b

Range(s) == {s[i] : i \in DOMAIN s}

---------------------------------------------------------------------------
(* The manifest and the registry.                                          *)

EntryA == [id |-> "A", name |-> "Docs A", description |-> "about A", base_url |-> "https://a"]

EntryB == [id |-> "B", name |-> "Docs B", description |-> "about B", base_url |-> "https://b"]

EntryC == [id |-> "C", name |-> "Docs C", description |-> "about C", base_url |-> Missing]

\* A second entry with the id of EntryA.
EntryA2 == [id |-> "A", name |-> "Docs A again", description |-> "more about A", base_url |-> "https://a2"]

EntryNoId == [id |-> Missing, name |-> "Docs B", description |-> "about B", base_url |-> "https://b"]

\* The manifests the process may be started with: well-formed ones (one
\* of them with a repeated id), one without the "collections" key and one
\* with an entry that has no id.
Manifests ==
    { [has_collections |-> TRUE, collections |-> cs] :
        cs \in { <<>>, <<EntryA>>, <<EntryA, EntryB>>, <<EntryB, EntryA>>,
                 <<EntryA, EntryA2>>, <<EntryA, EntryNoId>> } }
    \cup { [has_collections |-> FALSE, collections |-> <<>>] }

\* get_manifest()["collections"] raises KeyError without the key.
HasCollections(m) == m.has_collections

\* An entry the registry can be built from.
WellFormedEntry(e) ==
    /\ e.id # Missing
    /\ e.name # Missing
    /\ e.description # Missing

WellFormedManifest(m) ==
    /\ HasCollections(m)
    /\ \A i \in DOMAIN m.collections : WellFormedEntry(m.collections[i])

\* The scores a store holds, in its own relevance order (best first).
DescSeqs(n) ==
    { s \in [1..n -> Scores] : \A i \in 1..(n - 1) : s[i] >= s[i + 1] }

StoreScores == UNION { DescSeqs(n) : n \in 0..MaxDocs }

\* The (document, score) pairs of channel c's store holding scores s.
StoreDocs(c, s) ==
    [ i \in 1..Len(s) |->
        [ doc |-> [page_content |-> <<c, i>>, metadata |-> [source |-> c]],
          score |-> s[i] ] ]

RECURSIVE DistinctIds(_, _)
\* The ids of the entries, each once, in the order they first appear.
DistinctIds(entries, seen) ==
    IF entries = <<>> THEN <<>>
    ELSE IF Head(entries).id \in seen THEN DistinctIds(Tail(entries), seen)
    ELSE <<Head(entries).id>> \o DistinctIds(Tail(entries), seen \cup {Head(entries).id})

\* load_knowledge_base: one store per distinct id of the manifest, in
\* manifest order.
RegistryKeys(m) == DistinctIds(m.collections, {})

---------------------------------------------------------------------------
(* Pure helpers of run_extension.                                          *)

\* A faulty clamp: the lower limit is dropped.
ClampTopK_NoLowerLimit(top_k) == Min(top_k, MaxTopK)

\* A faulty clamp: one more than asked for is fetched.
ClampTopK_OverFetch(top_k) == Max(MinTopK, Min(top_k + 1, MaxTopK))

\* req.top_k = max(1, min(req.top_k, 15))
ClampTopK(top_k) == Max(MinTopK, Min(top_k, MaxTopK))

\* Python's s[:k]: a negative k counts from the end.
SlicePrefix(s, k) ==
    LET n == IF k >= 0 THEN Min(k, Len(s)) ELSE Max(0, Len(s) + k)
    IN  SubSeq(s, 1, n)

\* A faulty lookup: the dictionary is keyed by the display name.
CollectionInfo_ByName(collections, channel_id) ==
    LET hits == { i \in DOMAIN collections : collections[i].name = channel_id }
    IN  IF hits = {} \/ \E i \in DOMAIN collections : collections[i].name = Missing
        THEN [found |-> FALSE, info |-> EntryNoId]
        ELSE [found |-> TRUE,
              info |-> collections[CHOOSE i \in hits : \A j \in hits : j <= i]]

\* collection_info_dict[channel_id], with
\* collection_info_dict = {collection["id"]: collection for ...}:
\* the last entry with that id; not found is a KeyError, as is an entry
\* without an id.
CollectionInfo(collections, channel_id) ==
    LET hits == { i \in DOMAIN collections : collections[i].id = channel_id }
    IN  IF hits = {} \/ \E i \in DOMAIN collections : collections[i].id = Missing
        THEN [found |-> FALSE, info |-> EntryNoId]
        ELSE [found |-> TRUE,
              info |-> collections[CHOOSE i \in hits : \A j \in hits : j <= i]]

\* collection_info.get("base_url")
BaseUrlOf(info) == IF info.base_url = Missing THEN None ELSE info.base_url

\* The store's asimilarity_search_with_relevance_scores(query, k): its k
\* best documents, best first.
SimilaritySearch(held, query, k) == SubSeq(held, 1, Max(0, Min(k, Len(held))))

\* A faulty loop: the last key is left out.
CreateSearchCalls_SkipLast(keys, query, k) ==
    [ i \in 1..(Len(keys) - 1) |->
        [channel |-> keys[i], query |-> query, k |-> k,
         state |-> "pending", result |-> <<>>] ]

\* The loop of lines 49-57: one search call per key of docs_store_dict.
CreateSearchCalls(keys, query, k) ==
    [ i \in 1..Len(keys) |->
        [channel |-> keys[i], query |-> query, k |-> k,
         state |-> "pending", result |-> <<>>] ]

\* The value base_url holds after the loop: that of the last key.
LoopBaseUrl(collections, keys) ==
    IF keys = <<>> THEN None
    ELSE BaseUrlOf(CollectionInfo(collections, keys[Len(keys)]).info)

\* Whether some lookup of the loop raises KeyError.
LoopKeyError(collections, keys) ==
    \E i \in DOMAIN keys : ~CollectionInfo(collections, keys[i]).found

RECURSIVE Flatten(_)
\* for results_with_scores in channel_results for doc, score in ...
Flatten(lists) ==
    IF lists = <<>> THEN <<>> ELSE Head(lists) \o Flatten(Tail(lists))

\* The comprehension of lines 62-68: every pair becomes a DocWithScore
\* carrying the local base_url.
DocsWithScore(results, url) ==
    LET flat == Flatten(results)
    IN  [ i \in 1..Len(flat) |->
            [doc |-> flat[i].doc.page_content, score |-> flat[i].score,
             metadata |-> flat[i].doc.metadata, base_url |-> url] ]

\* x goes after every element whose score is at least its own.
InsertDesc(sorted, x) ==
    LET before == { i \in DOMAIN sorted : sorted[i].score >= x.score }
        n == Cardinality(before)
    IN  SubSeq(sorted, 1, n) \o <<x>> \o SubSeq(sorted, n + 1, Len(sorted))

RECURSIVE SortFrom(_, _)
SortFrom(sorted, rest) ==
    IF rest = <<>> THEN sorted
    ELSE SortFrom(InsertDesc(sorted, Head(rest)), Tail(rest))

\* sorted(docs, key=lambda x: x.score, reverse=True): stable.
SortedByScore(docs) == SortFrom(<<>>, docs)

\* Lines 72-75: a non-empty result prints its first three documents.
PrintRaises(docs) == Len(docs) > 0 /\ Len(docs) < PrintedDocs

\* A faulty join: failures are isolated, a failed call counts as empty.
GatherResult_ReturnExceptions(calls, exc) ==
    IF \A i \in DOMAIN calls : calls[i].state # "pending"
    THEN [kind |-> "results", exc |-> NoExc,
          results |-> [i \in DOMAIN calls |-> calls[i].result]]
    ELSE [kind |-> "pending", exc |-> NoExc, results |-> <<>>]

\* A faulty join: the first answer ends the wait.
GatherResult_FirstCompleted(calls, exc) ==
    IF exc # NoExc
    THEN [kind |-> "raise", exc |-> exc, results |-> <<>>]
    ELSE IF calls = <<>> \/ \E i \in DOMAIN calls : calls[i].state = "ok"
    THEN [kind |-> "results", exc |-> NoExc,
          results |-> [i \in DOMAIN calls |-> calls[i].result]]
    ELSE [kind |-> "pending", exc |-> NoExc, results |-> <<>>]

\* await asyncio.gather(*channel_results): raises the first exception as
\* soon as one call fails, returns every result once all have succeeded.
GatherResult(calls, exc) ==
    IF exc # NoExc
    THEN [kind |-> "raise", exc |-> exc, results |-> <<>>]
    ELSE IF \A i \in DOMAIN calls : calls[i].state = "ok"
    THEN [kind |-> "results", exc |-> NoExc,
          results |-> [i \in DOMAIN calls |-> calls[i].result]]
    ELSE [kind |-> "pending", exc |-> NoExc, results |-> <<>>]

NoOutcome == [kind |-> "none", docs |-> <<>>, error |-> NoExc]

Raised(kind, error) == [kind |-> kind, docs |-> <<>>, error |-> error]

Returned(docs) == [kind |-> "returned", docs |-> docs, error |-> NoExc]

---------------------------------------------------------------------------
(* The schema advertiser.                                                  *)

DocHeader == "Searching knowledge base for relevant documents. The available documentations are:"

InitialDoc == <<"Searching knowledge base for relevant documents.">>

\* f"- {channel['name']}: {channel['description']}"
ChannelLine(channel) == <<"- ", channel.name, ": ", channel.description>>

RECURSIVE JoinLines(_)
\* "\n".join(lines)
JoinLines(lines) ==
    IF lines = <<>> THEN <<>>
    ELSE IF Len(lines) = 1 THEN lines[1]
    ELSE lines[1] \o <<"\n">> \o JoinLines(Tail(lines))

ChannelInfo(channels) ==
    JoinLines([ i \in 1..Len(channels) |-> ChannelLine(channels[i]) ])

\* A faulty assignment: the list is added to the docstring the class has.
NewClassDoc_Appending(old, channels) == old \o <<"\n">> \o ChannelInfo(channels)

\* The docstring get_schema assigns, given the one the class has.
NewClassDoc(old, channels) == <<DocHeader, "\n">> \o ChannelInfo(channels)

RECURSIVE CleanDoc(_)
\* The docstring as a schema shows it: without its trailing blank lines.
CleanDoc(doc) ==
    IF doc # <<>> /\ doc[Len(doc)] = "\n" THEN CleanDoc(SubSeq(doc, 1, Len(doc) - 1))
    ELSE doc

\* DocumentRetrievalInput.schema(): the cleaned docstring is the
\* description; query has no default, top_k defaults to 3.
ModelSchema(doc) ==
    [ title |-> "DocumentRetrievalInput",
      description |-> CleanDoc(doc),
      properties |->
        [ query |-> [type |-> "string", has_default |-> FALSE, default |-> 0],
          top_k |-> [type |-> "integer", has_default |-> TRUE, default |-> DefaultTopK] ],
      required |-> {"query"} ]

\* The channel lists get_schema may be handed.
ChannelLists ==
    { <<>>, <<EntryA>>, <<EntryB>>, <<EntryC>>, <<EntryA, EntryB>>,
      <<EntryB, EntryA>>, <<EntryA, EntryC>>, <<EntryC, EntryB>>,
      <<EntryA, EntryB, EntryC>>, <<EntryC, EntryB, EntryA>> }

---------------------------------------------------------------------------
(* user_APIs/cellpose/image_processing.py: cellpose_get_response.  A data  *)
(* URL is a sequence of tokens, the separators "," ";" "/" being tokens of *)
(* their own; its payload is one token that names the encoded bytes.       *)

\* mb_size_max = 2.0
MbSizeMax == 2

\* len(decoded_image_data) / 1e6
BytesPerMb == 1000000

\* What the payloads decode to: a number of bytes that are, or are not, a
\* readable image; one payload is not valid base64.
Payloads == {"b64:image", "b64:image-2MB", "b64:image-over-2MB", "b64:not-an-image", "b64:bad-padding"}

PayloadBytes(p) ==
    CASE p = "b64:image" -> 150000
      [] p = "b64:image-2MB" -> 2000000
      [] p = "b64:image-over-2MB" -> 2000001
      [] p = "b64:not-an-image" -> 4096
      [] OTHER -> 0

PayloadValid(p) == p # "b64:bad-padding"

PayloadIsImage(p) == p \in {"b64:image", "b64:image-2MB", "b64:image-over-2MB"}

\* The subtypes of the data URLs' media type.
Subtypes == {"png", "jpeg", "jpg", "tiff", "gif", "PNG"}

\* TaskChoice
Tasks == {"cyto", "nuclei", "unknown"}

\* The axes guess_image_axes may answer with.
AxesGuesses ==
    { <<"c", "y", "x">>, <<"y", "x", "c">>, <<"x", "y", "c">>, <<"y", "x">>,
      <<"z", "y", "x">>, <<"b", "c", "y", "x">> }

DataUrl(subtype, payload) ==
    <<"data:image", "/", subtype, ";", "base64", ",", payload>>

\* question_with_history.image_data: absent, empty, a data URL, or text
\* that is no data URL (no comma, two commas, no media subtype).
ImageDatas ==
    { [kind |-> "none", tokens |-> <<>>], [kind |-> "str", tokens |-> <<>>] }
    \cup { [kind |-> "str", tokens |-> DataUrl(st, p)] : st \in Subtypes, p \in Payloads }
    \cup { [kind |-> "str", tokens |-> t] :
             t \in { <<"data:image", "/", "png", ";", "base64">>,
                     <<"data:image", "/", "png", ";", "base64", ",", "b64:image", ",", "b64:image">>,
                     <<"data", ";", "base64", ",", "b64:image">>,
                     <<"data:image", "/", "png", ",", "b64:image">>,
                     <<"data:image", "/", "png", ";", "base64", ",">> } }

NoLocals == [size |-> 0, image_ext |-> <<>>, axes |-> <<>>, situation |-> "", payload |-> <<>>]

RECURSIVE Split(_, _)
\* str.split(sep): the pieces between the separators, one more than there
\* are separators.
Split(tokens, sep) ==
    IF \A i \in DOMAIN tokens : tokens[i] # sep THEN <<tokens>>
    ELSE LET n == CHOOSE i \in DOMAIN tokens :
                    tokens[i] = sep /\ \A j \in 1..(i - 1) : tokens[j] # sep
         IN  <<SubSeq(tokens, 1, n - 1)>> \o Split(SubSeq(tokens, n + 1, Len(tokens)), sep)

\* not question_with_history.image_data: None and "" are both false.
ImagePresent(image_data) == image_data.kind = "str" /\ image_data.tokens # <<>>

\* decode_base64: split at the comma into exactly two pieces, decode the
\* second, take the media subtype of the first.
DecodeBase64(tokens) ==
    LET parts == Split(tokens, ",")
    IN  IF Len(parts) # 2
        THEN [ok |-> FALSE, error |-> "ValueError", size |-> 0, ext |-> <<>>, payload |-> <<>>]
        ELSE IF \E i \in DOMAIN parts[2] : ~PayloadValid(parts[2][i])
        THEN [ok |-> FALSE, error |-> "binascii.Error", size |-> 0, ext |-> <<>>, payload |-> <<>>]
        ELSE LET mime == Split(Split(parts[1], ";")[1], "/")
             IN  IF Len(mime) < 2
                 THEN [ok |-> FALSE, error |-> "IndexError", size |-> 0, ext |-> <<>>, payload |-> <<>>]
                 ELSE [ok |-> TRUE, error |-> "",
                       size |-> IF parts[2] = <<>> THEN 0 ELSE PayloadBytes(parts[2][1]),
                       ext |-> mime[2], payload |-> parts[2]]

\* len(decoded_image_data) / 1e6 > mb_size_max
TooLarge(size) == size > MbSizeMax * BytesPerMb

\* A faulty extension gate: every extension is let through.
AllowedExtension_Any(ext) == TRUE

\* image_ext not in ['png', 'jpeg', 'jpg', 'tiff']
AllowedExtension(ext) == ext \in { <<"png">>, <<"jpeg">>, <<"jpg">>, <<"tiff">> }

\* How often label occurs in axes.
CountLabel(axes, label) == Cardinality({ i \in DOMAIN axes : axes[i] = label })

\* sorted(axes) != ['c', 'x', 'y']
AxesAreCXY(axes) ==
    /\ Len(axes) = 3
    /\ \A label \in {"c", "x", "y"} : CountLabel(axes, label) = 1

---------------------------------------------------------------------------
(* The state after the module is imported.                                 *)

SearchInit ==
    /\ pc = "startup"
    /\ registry = <<>>
    /\ stores = <<>>
    /\ req = [query |-> "", top_k |-> DefaultTopK]
    /\ requested = DefaultTopK
    /\ base_url = None
    /\ channel_results = <<>>
    /\ gather_exc = NoExc
    /\ docs_with_score = <<>>
    /\ outcome = NoOutcome
    /\ prev = NoOutcome

SchemaInit ==
    /\ class_doc = InitialDoc
    /\ schema = ModelSchema(InitialDoc)
    /\ schema_args = <<>>

CellposeInit ==
    /\ cp_pc = "idle"
    /\ cp_input = [image_data |-> [kind |-> "none", tokens |-> <<>>], task |-> "unknown"]
    /\ cp_local = NoLocals
    /\ cp_steps = <<>>
    /\ cp_result = [kind |-> "none", text |-> ""]

Init ==
    /\ manifest \in Manifests
    /\ SearchInit
    /\ SchemaInit
    /\ CellposeInit

---------------------------------------------------------------------------
(* get_extensions: the manifest is read and the knowledge base is loaded.  *)
(* A manifest the registry cannot be built from ends the start-up.         *)

GetExtensions ==
    /\ pc = "startup"
    /\ IF ~WellFormedManifest(manifest)
       THEN /\ pc' = "config_error"
            /\ UNCHANGED <<registry, stores>>
       ELSE /\ pc' = "idle"
            /\ registry' = RegistryKeys(manifest)
            /\ \E held \in [Range(RegistryKeys(manifest)) -> StoreScores] :
                 stores' = [ c \in Range(RegistryKeys(manifest)) |-> StoreDocs(c, held[c]) ]
    /\ UNCHANGED <<manifest, req, requested, base_url, channel_results,
                   gather_exc, docs_with_score, outcome, prev>>
    /\ UNCHANGED schemaVars
    /\ UNCHANGED cellposeVars

(* run_extension up to its await (lines 45-57): clamp top_k in place, look *)
(* every key up in the manifest and create its search call.                *)
RunExtensionFrom(r) ==
    LET collections == manifest.collections
        top_k == ClampTopK(r.top_k)
    IN  /\ requested' = r.top_k
        /\ req' = [r EXCEPT !.top_k = top_k]
        /\ prev' = outcome
        /\ docs_with_score' = <<>>
        /\ gather_exc' = NoExc
        /\ IF LoopKeyError(collections, registry)
           THEN /\ pc' = "done"
                /\ outcome' = Raised("KeyError", NoExc)
                /\ channel_results' = <<>>
                /\ base_url' = None
           ELSE /\ pc' = "awaiting"
                /\ outcome' = NoOutcome
                /\ channel_results' = CreateSearchCalls(registry, r.query, top_k)
                /\ base_url' = LoopBaseUrl(collections, registry)
        /\ UNCHANGED <<manifest, registry, stores>>
        /\ UNCHANGED schemaVars
        /\ UNCHANGED cellposeVars

\* The first call: the framework builds the request.
RunExtension ==
    /\ pc = "idle"
    /\ \E q \in Queries, k \in TopKs : RunExtensionFrom([query |-> q, top_k |-> k])

\* A further call with the same request object.
RunExtensionAgain ==
    /\ pc = "done"
    /\ RunExtensionFrom(req)

\* One store answers its search call.
SearchSucceeds ==
    \E i \in DOMAIN channel_results :
        LET call == channel_results[i]
        IN  /\ call.state = "pending"
            /\ channel_results' =
                 [channel_results EXCEPT ![i] =
                    [call EXCEPT !.state = "ok",
                                 !.result = SimilaritySearch(stores[call.channel], call.query, call.k)]]
            /\ UNCHANGED <<manifest, pc, registry, stores, req, requested, base_url,
                           gather_exc, docs_with_score, outcome, prev>>
            /\ UNCHANGED schemaVars
            /\ UNCHANGED cellposeVars

\* One store's search call raises; gather keeps the first exception.
SearchFails ==
    \E i \in DOMAIN channel_results :
        LET call == channel_results[i]
        IN  /\ call.state = "pending"
            /\ channel_results' = [channel_results EXCEPT ![i] = [call EXCEPT !.state = "failed"]]
            /\ gather_exc' = IF gather_exc = NoExc /\ pc = "awaiting"
                             THEN call.channel ELSE gather_exc
            /\ UNCHANGED <<manifest, pc, registry, stores, req, requested, base_url,
                           docs_with_score, outcome, prev>>
            /\ UNCHANGED schemaVars
            /\ UNCHANGED cellposeVars

(* run_extension from its await on (lines 59-76): gather raises or hands   *)
(* over every result; the results are merged, sorted, truncated, printed   *)
(* and returned.                                                           *)
Join ==
    LET g == GatherResult(channel_results, gather_exc)
        docs == SlicePrefix(SortedByScore(DocsWithScore(g.results, base_url)), req.top_k)
    IN  /\ pc = "awaiting"
        /\ g.kind # "pending"
        /\ pc' = "done"
        /\ IF g.kind = "raise"
           THEN /\ outcome' = Raised("SearchError", g.exc)
                /\ UNCHANGED docs_with_score
           ELSE /\ docs_with_score' = docs
                /\ outcome' = IF PrintRaises(docs)
                              THEN Raised("IndexError", NoExc)
                              ELSE Returned(docs)
        /\ UNCHANGED <<manifest, registry, stores, req, requested, base_url,
                       channel_results, gather_exc, prev>>
        /\ UNCHANGED schemaVars
        /\ UNCHANGED cellposeVars

Next ==
    \/ GetExtensions
    \/ RunExtension
    \/ RunExtensionAgain
    \/ SearchSucceeds
    \/ SearchFails
    \/ Join

Spec == Init /\ [][Next]_vars

---------------------------------------------------------------------------
(* get_schema on its own: any sequence of calls with any channel lists.    *)

GetSchema ==
    /\ Len(schema_args) < MaxSchemaCalls
    /\ \E channels \in ChannelLists :
         /\ class_doc' = NewClassDoc(class_doc, channels)
         /\ schema' = ModelSchema(NewClassDoc(class_doc, channels))
         /\ schema_args' = Append(schema_args, channels)
    /\ UNCHANGED searchVars
    /\ UNCHANGED cellposeVars

SchemaSpecInit ==
    /\ manifest = [has_collections |-> TRUE, collections |-> <<EntryA, EntryB>>]
    /\ SearchInit
    /\ SchemaInit
    /\ CellposeInit

SchemaNext == GetSchema

SchemaSpec == SchemaSpecInit /\ [][SchemaNext]_vars


---------------------------------------------------------------------------
(* cellpose_get_response, cut at its awaits.                               *)

\* Lines 189-221, up to the first await: the gates on the image data, its
\* size, its extension and the task, then the temporary file.
CellposeGetResponse ==
    /\ cp_pc = "idle"
    /\ \E image_data \in ImageDatas, task \in Tasks :
         LET d == DecodeBase64(image_data.tokens)
             help(situation, steps) ==
                 /\ cp_pc' = "help"
                 /\ cp_local' = [NoLocals EXCEPT !.situation = situation]
                 /\ cp_steps' = steps
                 /\ cp_result' = cp_result
         IN  /\ cp_input' = [image_data |-> image_data, task |-> task]
             /\ IF ~ImagePresent(image_data)
                THEN help("no image", <<>>)
                ELSE IF ~d.ok
                THEN /\ cp_pc' = "done"
                     /\ cp_local' = NoLocals
                     /\ cp_steps' = <<"decode">>
                     /\ cp_result' = [kind |-> "error", text |-> d.error]
                ELSE IF TooLarge(d.size)
                THEN help("too large", <<"decode">>)
                ELSE IF ~AllowedExtension(d.ext)
                THEN help("not an image file", <<"decode">>)
                ELSE IF task = "unknown"
                THEN help("no task", <<"decode">>)
                ELSE /\ cp_pc' = "guessing"
                     /\ cp_local' = [NoLocals EXCEPT !.size = d.size, !.image_ext = d.ext,
                                                     !.payload = d.payload]
                     /\ cp_steps' = <<"decode", "write_file", "read_image">>
                     /\ cp_result' = cp_result
    /\ UNCHANGED searchVars
    /\ UNCHANGED schemaVars

\* create_cellpose_help answers, and its message is returned.
CellposeHelpReturns ==
    /\ cp_pc = "help"
    /\ cp_pc' = "done"
    /\ cp_steps' = Append(cp_steps, "help")
    /\ cp_result' = [kind |-> "help", text |-> cp_local.situation]
    /\ UNCHANGED <<cp_input, cp_local>>
    /\ UNCHANGED searchVars
    /\ UNCHANGED schemaVars

\* Lines 221-237: guess_image_axes reads the file's shape (bytes that are
\* no image have none) and answers; the gate on the axes; the resizing and
\* the call of run_cellpose.
CellposeAxesGuessed ==
    /\ cp_pc = "guessing"
    /\ IF cp_local.payload = <<>> \/ ~PayloadIsImage(cp_local.payload[1])
       THEN /\ cp_pc' = "done"
            /\ cp_steps' = Append(cp_steps, "guess_axes")
            /\ cp_result' = [kind |-> "raised", text |-> "AttributeError"]
            /\ UNCHANGED cp_local
       ELSE \E axes \in AxesGuesses :
              IF ~AxesAreCXY(axes)
              THEN /\ cp_pc' = "help"
                   /\ cp_local' = [cp_local EXCEPT !.axes = axes, !.situation = "unexpected axes"]
                   /\ cp_steps' = Append(cp_steps, "guess_axes")
                   /\ UNCHANGED cp_result
              ELSE /\ cp_pc' = "segmenting"
                   /\ cp_local' = [cp_local EXCEPT !.axes = axes]
                   /\ cp_steps' = cp_steps \o <<"guess_axes", "resize", "run_cellpose">>
                   /\ UNCHANGED cp_result
    /\ UNCHANGED cp_input
    /\ UNCHANGED searchVars
    /\ UNCHANGED schemaVars

\* Lines 237-252: run_cellpose answers and the result message is returned.
CellposeSegmented ==
    /\ cp_pc = "segmenting"
    /\ cp_pc' = "done"
    /\ cp_result' = [kind |-> "result", text |-> cp_input.task]
    /\ UNCHANGED <<cp_input, cp_local, cp_steps>>
    /\ UNCHANGED searchVars
    /\ UNCHANGED schemaVars

CellposeSpecInit ==
    /\ manifest = [has_collections |-> TRUE, collections |-> <<EntryA, EntryB>>]
    /\ SearchInit
    /\ SchemaInit
    /\ CellposeInit

CellposeNext ==
    \/ CellposeGetResponse
    \/ CellposeHelpReturns
    \/ CellposeAxesGuessed
    \/ CellposeSegmented

CellposeSpec == CellposeSpecInit /\ [][CellposeNext]_vars

---------------------------------------------------------------------------
(* What the properties below read off a state.                             *)

\* max(1, min(requested, 15)), case by case.
ExpectedTopK ==
    IF requested < 1 THEN 1 ELSE IF requested > 15 THEN 15 ELSE requested

\* Every (document, score) pair the stores have answered with, collections
\* in registry order, each collection's pairs in store order.
Candidates == Flatten([ i \in DOMAIN channel_results |-> channel_results[i].result ])

AllCallsOk == \A i \in DOMAIN channel_results : channel_results[i].state = "ok"

FailedChannels ==
    { channel_results[i].channel :
        i \in { j \in DOMAIN channel_results : channel_results[j].state = "failed" } }

\* The call ran to the merge (it returned, or raised while printing).
Merged == pc = "done" /\ outcome.kind \in {"returned", "IndexError"}

\* How many candidates go before candidate i in the ranking: the better
\* scored ones, and the equally scored ones discovered earlier.
Rank(i) ==
    Cardinality({ j \in DOMAIN Candidates :
                    \/ Candidates[j].score > Candidates[i].score
                    \/ Candidates[j].score = Candidates[i].score /\ j < i })

Ranked ==
    [ r \in 1..Len(Candidates) |->
        Candidates[CHOOSE i \in DOMAIN Candidates : Rank(i) = r - 1] ]

\* The documents and scores of a result list, without their base_url.
Ranking(docs) ==
    [ i \in 1..Len(docs) |-> [page_content |-> docs[i].doc, score |-> docs[i].score] ]

ExpectedRanking ==
    [ i \in 1..Min(ExpectedTopK, Len(Candidates)) |->
        [page_content |-> Ranked[i].doc.page_content, score |-> Ranked[i].score] ]

RECURSIVE SplitLines(_)
\* The lines of a string: its tokens between the "\n" tokens.
SplitLines(tokens) ==
    IF \A i \in DOMAIN tokens : tokens[i] # "\n" THEN <<tokens>>
    ELSE LET n == CHOOSE i \in DOMAIN tokens :
                    tokens[i] = "\n" /\ \A j \in 1..(i - 1) : tokens[j] # "\n"
         IN  <<SubSeq(tokens, 1, n - 1)>> \o SplitLines(SubSeq(tokens, n + 1, Len(tokens)))

LatestChannels == schema_args[Len(schema_args)]

SchemaLines == SplitLines(schema.description)

---------------------------------------------------------------------------
(* The properties.                                                         *)

\* C1: every document run_extension returns carries the base_url of the
\* collection whose store returned it.
C1_ProvenancePreserved ==
    outcome.kind = "returned" =>
        \A i \in DOMAIN outcome.docs :
            outcome.docs[i].base_url =
                BaseUrlOf(CollectionInfo(manifest.collections,
                                         outcome.docs[i].metadata.source).info)

\* C2: whatever top_k the request carries, the value handed to every store
\* and the truncation limit are max(1, min(top_k, 15)).
C2_EffectiveTopK ==
    pc \in {"awaiting", "done"} =>
        /\ req.top_k = ExpectedTopK
        /\ \A i \in DOMAIN channel_results : channel_results[i].k = ExpectedTopK
        /\ Merged => Len(docs_with_score) = Min(ExpectedTopK, Len(Candidates))

C2_Witness ==
    /\ pc = "done"
    /\ requested = -3
    /\ Len(channel_results) = 2
    /\ AllCallsOk
    /\ Len(Candidates) = 2
    /\ Len(docs_with_score) = 1

\* C3: when every store has answered, run_extension returns the first
\* min(clamp(top_k), n) of the n candidates ranked by score descending,
\* ties in discovery order.
C3_RankedTopK ==
    (pc = "done" /\ AllCallsOk) =>
        /\ outcome.kind = "returned"
        /\ Ranking(outcome.docs) = ExpectedRanking

\* C4: when every store has answered with fewer candidates than the
\* effective top_k, run_extension returns them all and raises nothing.
C4_FewerThanTopK ==
    (pc = "done" /\ AllCallsOk /\ Len(Candidates) < req.top_k) =>
        /\ outcome.kind = "returned"
        /\ Len(outcome.docs) = Len(Candidates)

\* C5: with a non-empty registry one call of run_extension issues exactly
\* one search call to each registered store, with the request's query and
\* the clamped top_k, which lies in 1..15.
C5_OneCallPerCollection ==
    (pc \in {"awaiting", "done"} /\ registry # <<>>) =>
        /\ Len(channel_results) = Len(registry)
        /\ \A i \in DOMAIN channel_results :
             /\ channel_results[i].channel = registry[i]
             /\ channel_results[i].query = req.query
             /\ channel_results[i].k = ExpectedTopK
             /\ channel_results[i].k >= 1
             /\ channel_results[i].k <= 15
        /\ \A i, j \in DOMAIN registry : registry[i] = registry[j] => i = j

C5_Witness ==
    /\ pc = "awaiting"
    /\ Len(registry) = 2
    /\ requested = 100
    /\ \A i \in DOMAIN channel_results : channel_results[i].state = "pending"

\* C6: once a search call has failed the request ends with the error of a
\* failed call and hands no result list to the caller, and no store is
\* called a second time.
C6_FailureAborts ==
    /\ (pc = "done" /\ FailedChannels # {}) =>
         /\ outcome.kind = "SearchError"
         /\ outcome.error \in FailedChannels
         /\ outcome.docs = <<>>
         /\ docs_with_score = <<>>
    /\ (pc = "awaiting" /\ FailedChannels # {}) =>
         /\ outcome = NoOutcome
         /\ gather_exc \in FailedChannels
    /\ \A i, j \in DOMAIN channel_results :
         channel_results[i].channel = channel_results[j].channel => i = j

C6_Witness ==
    /\ pc = "done"
    /\ outcome.kind = "SearchError"
    /\ Len(channel_results) = 2
    /\ channel_results[1].state = "ok"
    /\ Len(channel_results[1].result) = 2
    /\ channel_results[2].state = "failed"

\* C7, as stated: the request does not end while a search call is still
\* incomplete.
C7_EndsOnlyWhenAllComplete ==
    pc = "done" =>
        \A i \in DOMAIN channel_results : channel_results[i].state # "pending"

\* C7, amended: every search call exists before any completes; the merge
\* runs only once every call has succeeded; the merged list is empty until
\* then; a request that ended with a call still pending ended with the
\* error of a failed call.
C7_JoinBarrier ==
    /\ (\E i \in DOMAIN channel_results : channel_results[i].state # "pending") =>
         Len(channel_results) = Len(registry)
    /\ Merged => AllCallsOk
    /\ pc = "awaiting" => (docs_with_score = <<>> /\ outcome = NoOutcome)
    /\ (pc = "done" /\ ~AllCallsOk) =>
         (outcome.kind = "SearchError" /\ docs_with_score = <<>>)

C7_Witness ==
    /\ pc = "done"
    /\ outcome.kind = "returned"
    /\ Len(channel_results) = 2
    /\ Len(outcome.docs) = 3

C9_Idempotent ==
    (pc = "done" /\ prev.kind \in {"returned", "IndexError"}
                 /\ outcome.kind \in {"returned", "IndexError"}) =>
        outcome = prev

C9_Witness ==
    /\ pc = "done"
    /\ prev.kind = "returned"
    /\ outcome.kind = "returned"
    /\ requested = MaxTopK
    /\ Len(outcome.docs) = 4
    /\ Len(channel_results) = 2

---------------------------------------------------------------------------
(* cellpose_get_response: what its gates are, read off its arguments.      *)

InputTokens == cp_input.image_data.tokens

CommaPlaces == { i \in DOMAIN InputTokens : InputTokens[i] = "," }

\* Where the media type's first "/" stands, 0 when the part of the header
\* before its first ";" has none.
SlashPlace ==
    LET stop == { i \in DOMAIN InputTokens : InputTokens[i] \in {";", ","} }
        slashes == { i \in DOMAIN InputTokens :
                       InputTokens[i] = "/" /\ \A j \in stop : i < j }
    IN  IF slashes = {} THEN 0 ELSE CHOOSE i \in slashes : \A j \in slashes : i <= j

\* The bytes after the comma.
InputBytes ==
    LET c == CHOOSE i \in CommaPlaces : TRUE
    IN  IF c = Len(InputTokens) THEN 0 ELSE PayloadBytes(InputTokens[c + 1])

GateImage == cp_input.image_data.kind = "str" /\ InputTokens # <<>>

GateDecodes ==
    /\ Cardinality(CommaPlaces) = 1
    /\ SlashPlace # 0
    /\ \A i \in DOMAIN InputTokens :
         (\E c \in CommaPlaces : i > c) => InputTokens[i] # "b64:bad-padding"

GateSize == InputBytes <= 2000000

GateExtension ==
    /\ InputTokens[SlashPlace + 1] \in {"png", "jpeg", "jpg", "tiff"}
    /\ InputTokens[SlashPlace + 2] \in {";", ","}

GateTask == cp_input.task \in {"cyto", "nuclei"}

GateAxes ==
    /\ Len(cp_local.axes) = 3
    /\ Range(cp_local.axes) = {"c", "x", "y"}

\* The steps of a call that passes every gate, in order.
CellposeSteps == <<"decode", "write_file", "read_image", "guess_axes", "resize", "run_cellpose">>

\* The steps taken, the closing help message apart.
StepsTaken ==
    IF cp_steps # <<>> /\ cp_steps[Len(cp_steps)] = "help"
    THEN SubSeq(cp_steps, 1, Len(cp_steps) - 1)
    ELSE cp_steps

\* The situation the help message is asked for when the first gate that
\* fails is the given one.
FirstFailedGate ==
    IF ~GateImage THEN "no image"
    ELSE IF ~GateDecodes THEN "decode"
    ELSE IF ~GateSize THEN "too large"
    ELSE IF ~GateExtension THEN "not an image file"
    ELSE IF ~GateTask THEN "no task"
    ELSE "none"

\* C11: run_cellpose is called only when the image is present, decodes to
\* at most 2 MB, has an extension among png, jpeg, jpg, tiff, the task is
\* known and the guessed axes are a permutation of c, x, y; the gates are
\* taken in that order; a failed gate ends the call with a help or error
\* message, and no step behind the first failed gate is taken.
C11_CellposeGated ==
    cp_pc # "idle" =>
        /\ "run_cellpose" \in Range(cp_steps) =>
             (FirstFailedGate = "none" /\ GateAxes)
        /\ StepsTaken = SubSeq(CellposeSteps, 1, Len(StepsTaken))
        /\ FirstFailedGate = "no image" =>
             /\ StepsTaken = <<>>
             /\ cp_local.situation = "no image"
             /\ cp_pc = "done" => cp_result.kind = "help"
        /\ FirstFailedGate = "decode" =>
             /\ cp_steps = <<"decode">>
             /\ cp_pc = "done"
             /\ cp_result.kind = "error"
        /\ FirstFailedGate \in {"too large", "not an image file", "no task"} =>
             /\ StepsTaken = <<"decode">>
             /\ cp_local.situation = FirstFailedGate
             /\ cp_pc = "done" => cp_result.kind = "help"
        /\ (FirstFailedGate = "none" /\ "guess_axes" \in Range(cp_steps)
                /\ cp_result.kind # "raised" /\ ~GateAxes) =>
             /\ StepsTaken = SubSeq(CellposeSteps, 1, 4)
             /\ cp_local.situation = "unexpected axes"
             /\ cp_pc = "done" => cp_result.kind = "help"
        /\ cp_result.kind = "result" => "run_cellpose" \in Range(cp_steps)

C11_Witness ==
    /\ cp_pc = "done"
    /\ cp_result.kind = "result"
    /\ cp_steps = CellposeSteps
    /\ cp_local.size = 2000000
    /\ cp_local.image_ext = <<"tiff">>
    /\ cp_local.axes = <<"y", "x", "c">>

===========================================================================
